---- MODULE Spec2Model ----
(***************************************************************************)
(* Exegol Session Viewer: the recording normaliser (convert_to_cast), the  *)
(* video-assembly request handlers (/processing, /extract_mp4, /progress)  *)
(* and the background workers (convert_cast_to_mp4_progress and its        *)
(* range-restricted variant), over a shared temporary directory.           *)
(***************************************************************************)
EXTENDS Integers, Sequences, FiniteSets, TLC

(***************************************************************************)
(* Bounds of the model.                                                    *)
(***************************************************************************)
MaxReq == 2
MaxWorkers == 2
MaxNames == 2
MaxLines == 4

(***************************************************************************)
(* Lines of a recording file.  A line is one of: a JSON object, a JSON     *)
(* array, another JSON value, a blank line, text that is not JSON, or text *)
(* that starts with "[" but is not JSON (a truncated event).  ind says     *)
(* whether the line has leading whitespace.                                *)
(***************************************************************************)
Obj(f) == [k |-> "obj", ind |-> FALSE, f |-> f, e |-> <<>>]
Arr(e) == [k |-> "arr", ind |-> FALSE, f |-> <<>>, e |-> e]
IndArr(e) == [k |-> "arr", ind |-> TRUE, f |-> <<>>, e |-> e]
Scalar == [k |-> "scalar", ind |-> FALSE, f |-> <<>>, e |-> <<>>]
Blank == [k |-> "blank", ind |-> FALSE, f |-> <<>>, e |-> <<>>]
Garbage == [k |-> "garbage", ind |-> FALSE, f |-> <<>>, e |-> <<>>]
BadArr == [k |-> "badarr", ind |-> FALSE, f |-> <<>>, e |-> <<>>]

\* line.strip().startswith("[")
StripStartsWithBracket(l) == l.k \in {"arr", "badarr"}

\* l.strip() and l.startswith("[")
StartsWithBracket(l) == l.k \in {"arr", "badarr"} /\ ~l.ind

\* json.loads(line) returns a value (otherwise it raises)
JsonLoads(l) == l.k \in {"obj", "arr", "scalar"}

\* isinstance(evt, list) and len(evt) >= 3
IsEvent(l) == l.k = "arr" /\ Len(l.e) >= 3

DefaultEnv == [TERM |-> "xterm", SHELL |-> "/bin/bash"]

DefaultHeader(mtime) ==
    [version |-> 2, width |-> 100, height |-> 30, timestamp |-> mtime,
     env |-> DefaultEnv]

\* dict.update
Update(d, m) ==
    [x \in (DOMAIN d) \cup (DOMAIN m) |-> IF x \in DOMAIN m THEN m[x] ELSE d[x]]

\* the header convert_to_cast writes for a file whose first line is l
ParseHeader(l, mtime) ==
    IF l.k = "obj" /\ "version" \in DOMAIN l.f
    THEN Update(DefaultHeader(mtime), l.f)
    ELSE DefaultHeader(mtime)

\* except Exception: the line is reported and the loop goes on with the
\* rest of the file
OnLineErrorStop(rest) == <<>>

OnLineError(rest) == rest

RECURSIVE ParseEvents(_)
ParseEvents(ls) ==
    IF ls = <<>> THEN <<>>
    ELSE LET l == Head(ls)
             rest == ParseEvents(Tail(ls))
         IN IF ~StripStartsWithBracket(l) THEN rest
            ELSE IF ~JsonLoads(l) THEN OnLineError(rest)
            ELSE IF IsEvent(l) THEN <<l.e>> \o rest
            ELSE rest

\* json.dumps(event) + "\n" for every event
RECURSIVE DumpEvents(_)
DumpEvents(es) ==
    IF es = <<>> THEN <<>> ELSE <<Arr(Head(es))>> \o DumpEvents(Tail(es))

\* convert_to_cast: the lines of the temporary .cast file
ConvertToCast(file) ==
    IF file.lines = <<>>
    THEN <<>>
    ELSE <<Obj(ParseHeader(Head(file.lines), file.mtime))>>
         \o DumpEvents(ParseEvents(Tail(file.lines)))

(***************************************************************************)
(* Input pools.                                                            *)
(***************************************************************************)
HeaderPool ==
    { [version |-> 2, width |-> 80, height |-> 24, timestamp |-> 1,
       env |-> [SHELL |-> "/bin/zsh"]],
      [version |-> 2, width |-> 80],
      [version |-> 1],
      [width |-> 80, height |-> 24] }

EventPool ==
    { <<0, "o", "A">>, <<1, "o", "">>, <<2, "i", "x">>, <<1, "m", "B">>,
      <<3, "o">> }

LinePool ==
    {Obj(h) : h \in HeaderPool} \cup {Arr(e) : e \in EventPool}
    \cup {IndArr(<<2, "o", "B">>), Scalar, Blank, Garbage, BadArr}

RECURSIVE SeqsUpTo(_, _)
SeqsUpTo(S, n) ==
    IF n = 0 THEN {<<>>}
    ELSE LET P == SeqsUpTo(S, n - 1)
         IN P \cup {Append(s, x) : s \in {t \in P : Len(t) = n - 1}, x \in S}

(***************************************************************************)
(* Terminal replay, reduced to what frame selection needs: the screen is   *)
(* the sequence of glyphs printed so far (screen.display) and the sequence *)
(* of their colours.  The payloads of the model are single glyphs, the     *)
(* empty string and BEL (nothing visible changes), Recolour (backspace,    *)
(* red, "A", reset: the last cell becomes a red "A") and NonString, a      *)
(* payload that is not a string (stream.feed raises).                      *)
(***************************************************************************)
NonString == "<number>"
Invisible == {"", "\\a"}
Recolour == "\\b\\e[31mA\\e[0m"

FeedRaises(payload) == payload = NonString

\* the glyphs of the screen after stream.feed(payload)
Feed(screen, payload) ==
    IF payload \in Invisible THEN screen
    ELSE IF payload = Recolour
    THEN IF screen = <<>> THEN <<"A">>
         ELSE [screen EXCEPT ![Len(screen)] = "A"]
    ELSE Append(screen, payload)

\* the colours of the cells of the screen after stream.feed(payload)
FeedAttrs(attrs, payload) ==
    IF payload \in Invisible THEN attrs
    ELSE IF payload = Recolour
    THEN IF attrs = <<>> THEN <<"red">>
         ELSE [attrs EXCEPT ![Len(attrs)] = "red"]
    ELSE Append(attrs, "default")

(***************************************************************************)
(* Status records.  progress is the rational num/den.                      *)
(***************************************************************************)
Rec(num, den, done, text, err, frame) ==
    [num |-> num, den |-> den, done |-> done, text |-> text, err |-> err,
     frame |-> frame]

NoRec == Rec(0, 1, FALSE, "", "", 0)

\* {"progress": 0, "done": False, "text": f"Error: Cast file not found: ..."}
RecCastNotFound == Rec(0, 1, FALSE, "Error", "Cast file not found", 0)
\* {"progress": 1.0, "done": True, "text": "File already exists"}
RecExists == Rec(1, 1, TRUE, "File already exists", "", 0)
\* {"progress": 0, "done": False, "text": "Encoding MP4..."}
RecEncodingZero == Rec(0, 1, FALSE, "Encoding MP4...", "", 0)

\* {"progress": 1.0, "done": False, "text": "Encoding MP4..."}
RecEncoding == Rec(1, 1, FALSE, "Encoding MP4...", "", 0)
\* {"progress": 1.0, "done": True, "text": "Done"}
RecDone == Rec(1, 1, TRUE, "Done", "", 0)
\* {"progress": 1.0, "done": True, "text": "No frames generated!"}
RecNoFramesNotDone == Rec(1, 1, FALSE, "No frames generated!", "", 0)

RecNoFrames == Rec(1, 1, TRUE, "No frames generated!", "", 0)
\* {"progress": 0, "done": False, "text": f"Error: {e}"}
RecError(e) == Rec(0, 1, FALSE, "Error", e, 0)
\* {"progress": 0, "done": False, "text": f"Error starting conversion: {e}"}
RecThreadError == Rec(0, 1, FALSE, "Error starting conversion", "thread", 0)
\* {"progress": i / len(output_events), "done": False, "text": "Processing frame ..."}
FrameProgressPerImage(i, nout, nimg) == Rec(i, nimg, FALSE, "Processing frame", "", nimg)

FrameProgress(i, nout, nimg) ==
    Rec(i, IF nout > 0 THEN nout ELSE 1, FALSE, "Processing frame", "", nimg)

\* /progress answers
RespDone == Rec(1, 1, TRUE, "Done!", "", 0)
RespInit == Rec(0, 1, FALSE, "Initializing...", "", 0)

(***************************************************************************)
(* The temporary directory.                                                *)
(***************************************************************************)
Reqs == 1..MaxReq
Wks == 1..MaxWorkers
Names == 1..MaxNames

\* start, end of /extract_mp4; <<>> is the whole recording (/processing)
Ranges == {<<1, 2>>, <<0, 5>>}
Full == <<>>
Keys == [n : Names, rg : Ranges \cup {Full}]

\* age: 0 younger than max_age, 1 older than max_age (1 hour),
\*      2 older than max_age_mp4 (24 hours)
NoFile == [ex |-> FALSE, lines |-> <<>>, age |-> 0]
\* of: the output events the video renders; frames: the frames it holds
NoFps == [num |-> 0, den |-> 1]
NoMp4 == [st |-> "none", of |-> <<>>, frames |-> 0, fps |-> NoFps, age |-> 0]
NoProg == [ex |-> FALSE, rec |-> NoRec, age |-> 0]

Hdr == [version |-> 2, width |-> 80, height |-> 24]

\* the session files the requests name: a recording without output events,
\* one of a single output event, one of three output events (the second one
\* changes nothing visible) around a corrupt line and an input event, one
\* whose first payload is no string, and an empty file
NoOutput == [lines |-> <<Obj(Hdr), Arr(<<0, "i", "x">>)>>, mtime |-> 5]
OneOutput == [lines |-> <<Obj(Hdr), Arr(<<1, "o", "A">>)>>, mtime |-> 5]
ThreeOutputs ==
    [lines |-> <<Obj(Hdr), Arr(<<0, "o", "A">>), Garbage, Arr(<<1, "o", "\\a">>),
                 Arr(<<1, "i", "x">>), Arr(<<2, "o", "B">>)>>, mtime |-> 5]
BadPayload ==
    [lines |-> <<Obj(Hdr), Arr(<<0, "o", NonString>>), Arr(<<1, "o", "A">>)>>,
     mtime |-> 5]
EmptyFile == [lines |-> <<>>, mtime |-> 5]
\* a recording whose event lines are not in time order, and one whose last
\* output event changes nothing visible
Unsorted ==
    [lines |-> <<Obj(Hdr), Arr(<<2, "o", "A">>), Arr(<<1, "o", "B">>)>>,
     mtime |-> 5]
LastInvisible ==
    [lines |-> <<Obj(Hdr), Arr(<<0, "o", "A">>), Arr(<<1, "o", "\\a">>)>>,
     mtime |-> 5]
\* a recording of six output events, a glyph each
SixOutputs ==
    [lines |-> <<Obj(Hdr), Arr(<<0, "o", "A">>), Arr(<<1, "o", "B">>),
                 Arr(<<2, "o", "C">>), Arr(<<3, "o", "D">>),
                 Arr(<<4, "o", "E">>), Arr(<<5, "o", "F">>)>>, mtime |-> 5]
\* a recording whose first output event prints nothing
FirstInvisible ==
    [lines |-> <<Obj(Hdr), Arr(<<0, "o", "">>), Arr(<<1, "o", "A">>)>>,
     mtime |-> 5]
\* a recording whose second output event changes the colour of a cell only
Recoloured ==
    [lines |-> <<Obj(Hdr), Arr(<<0, "o", "A">>), Arr(<<1, "o", Recolour>>)>>,
     mtime |-> 5]

SmallSources == {EmptyFile, OneOutput}
Sources ==
    {EmptyFile, NoOutput, OneOutput, ThreeOutputs, BadPayload, Unsorted,
     LastInvisible, FirstInvisible, Recoloured, SixOutputs}

VARIABLES pfile, pcast, cast, mp4, prog, req, wk, resp, op, calc, lnch

pvars == <<pfile, pcast, op, calc, lnch>>
jvars == <<cast, mp4, prog, req, wk, resp>>
vars == <<pfile, pcast, cast, mp4, prog, req, wk, resp, op, calc, lnch>>

IdleReq ==
    [pc |-> "idle", route |-> "", src |-> EmptyFile, n |-> 1, rg |-> Full,
     out |-> ""]

NoWorker ==
    [pc |-> "none", route |-> "", n |-> 1, rg |-> Full, evs |-> <<>>, i |-> 0,
     nimg |-> 0, ts |-> <<>>, scr |-> <<>>, sgr |-> <<>>, hashed |-> FALSE,
     last |-> <<>>, rfail |-> FALSE, nw |-> 0, wrote |-> NoRec]

Final == {"none", "done", "failed"}

KeyOf(x) == [n |-> x.n, rg |-> x.rg]

NotParsed == <<Blank, Blank>>

Parse ==
    /\ pcast = NotParsed
    /\ pcast' = ConvertToCast(pfile)
    /\ UNCHANGED <<pfile, op, calc, lnch>>

\* the last request to /view, /extract or /search and its answer
NoOp ==
    [name |-> "", n |-> 1, s |-> 0, e |-> 0, src |-> EmptyFile, q |-> <<>>,
     error |-> "", out |-> <<>>, total |-> 0]

JobIdle ==
    /\ cast = [n \in Names |-> NoFile]
    /\ mp4 = [k \in Keys |-> NoMp4]
    /\ prog = [k \in Keys |-> NoProg]
    /\ req = [r \in Reqs |-> IdleReq]
    /\ wk = [w \in Wks |-> NoWorker]
    /\ resp = [k |-> [n |-> 1, rg |-> Full], rec |-> NoRec]
    /\ op = NoOp


(***************************************************************************)
(* Operations on the temporary directory.                                  *)
(***************************************************************************)
WriteProgress(k, rec) == [prog EXCEPT ![k] = [ex |-> TRUE, rec |-> rec, age |-> 0]]

Exists(k) == mp4[k].st # "none"

\* cleanup_old_files: .cast and .progress older than max_age, .mp4 older
\* than max_age_mp4
CleanCast == [n \in Names |-> IF cast[n].ex /\ cast[n].age >= 1 THEN NoFile ELSE cast[n]]
CleanProg == [k \in Keys |-> IF prog[k].ex /\ prog[k].age >= 1 THEN NoProg ELSE prog[k]]
CleanMp4 == [k \in Keys |-> IF Exists(k) /\ mp4[k].age >= 2 THEN NoMp4 ELSE mp4[k]]

\* time passes: every file crosses its next age threshold
Tick ==
    /\ cast' = [n \in Names |-> IF cast[n].ex THEN [cast[n] EXCEPT !.age = 1] ELSE cast[n]]
    /\ prog' = [k \in Keys |-> IF prog[k].ex THEN [prog[k] EXCEPT !.age = 1] ELSE prog[k]]
    /\ mp4' = [k \in Keys |-> IF Exists(k) /\ mp4[k].age < 2
                              THEN [mp4[k] EXCEPT !.age = @ + 1] ELSE mp4[k]]
    /\ <<cast', prog', mp4'>> # <<cast, prog, mp4>>
    /\ UNCHANGED <<req, wk, resp>>

(***************************************************************************)
(* Request handlers.                                                       *)
(***************************************************************************)
\* /processing and /extract_mp4, up to the return of convert_to_cast:
\* NamedTemporaryFile takes a name no .cast file has
Request(r, Srcs, Rgs, Ns) ==
    /\ req[r].pc = "idle"
    /\ \E src \in Srcs, n \in Ns, rg \in Rgs :
         /\ ~cast[n].ex
         /\ cast' = [cast EXCEPT ![n] = [ex |-> TRUE, lines |-> ConvertToCast(src), age |-> 0]]
         /\ req' = [req EXCEPT ![r] =
                      [pc |-> "check",
                       route |-> IF rg = Full THEN "processing" ELSE "extract_mp4",
                       src |-> src, n |-> n, rg |-> rg, out |-> ""]]
    /\ UNCHANGED <<mp4, prog, wk, resp>>

\* not (os.path.exists(mp4_path) or os.path.exists(progress_path))
MustStartAnd(k) == ~(Exists(k) /\ prog[k].ex)

MustStart(k) == ~(Exists(k) \/ prog[k].ex)

FreeWks == {w \in Wks : wk[w].pc \in Final}

\* the test and, when it passes, Thread(...).start(); then the page is sent
Check(r) ==
    /\ req[r].pc = "check"
    /\ LET k == KeyOf(req[r])
       IN IF MustStart(k)
          THEN /\ \E w \in FreeWks :
                    /\ \A v \in FreeWks : w <= v
                    /\ wk' = [wk EXCEPT ![w] = [NoWorker EXCEPT !.pc = "cleanup",
                                                   !.route = req[r].route,
                                                   !.n = req[r].n, !.rg = req[r].rg]]
               /\ req' = [req EXCEPT ![r] = [IdleReq EXCEPT !.out = "started"]]
          ELSE /\ wk' = wk
               /\ req' = [req EXCEPT ![r] =
                            [IdleReq EXCEPT !.out = IF Exists(k) THEN "cached"
                                                    ELSE "attached"]]
    /\ UNCHANGED <<cast, mp4, prog, resp>>

\* /processing: thread.start() raises, the handler writes an error record
ThreadStartFails(r) ==
    /\ req[r].pc = "check"
    /\ req[r].route = "processing"
    /\ MustStart(KeyOf(req[r]))
    /\ req' = [req EXCEPT ![r] = [IdleReq EXCEPT !.out = "error"]]
    /\ prog' = WriteProgress(KeyOf(req[r]), RecThreadError)
    /\ UNCHANGED <<cast, mp4, wk, resp>>

\* /progress?file=mp4_path
ProgressAnswerRecordFirst(k) ==
    IF prog[k].ex THEN prog[k].rec
    ELSE IF Exists(k) THEN RespDone
    ELSE RespInit

ProgressAnswer(k) ==
    IF Exists(k) THEN RespDone
    ELSE IF prog[k].ex THEN prog[k].rec
    ELSE RespInit

Progress(k) ==
    /\ resp' = [k |-> k, rec |-> ProgressAnswer(k)]
    /\ resp' # resp
    /\ UNCHANGED <<cast, mp4, prog, req, wk>>

\* /download_mp4?file=mp4_path
DownloadMp4(k) == IF ~Exists(k) THEN "File not ready." ELSE "file"

(***************************************************************************)
(* Workers: convert_cast_to_mp4_progress and                               *)
(* convert_cast_to_mp4_progress_extract.                                   *)
(***************************************************************************)
\* except Exception as e: the record written by the handler of the worker
\* the thread ends: its locals are gone
Return(pc) == [NoWorker EXCEPT !.pc = pc]

OnExceptionSilent(r, e) ==
    /\ wk' = [wk EXCEPT ![r] = Return("failed")]
    /\ prog' = prog

OnException(r, e) ==
    /\ wk' = [wk EXCEPT ![r] = Return("failed")]
    /\ prog' = WriteProgress(KeyOf(wk[r]), RecError(e))

WCleanup(r) ==
    /\ wk[r].pc = "cleanup"
    /\ cast' = CleanCast
    /\ prog' = CleanProg
    /\ mp4' = CleanMp4
    /\ wk' = [wk EXCEPT ![r].pc = IF wk[r].route = "processing" THEN "chkcast" ELSE "chkmp4"]
    /\ UNCHANGED <<req, resp>>

\* if not os.path.exists(cast_path): write the record and return
WCheckCast(r) ==
    /\ wk[r].pc = "chkcast"
    /\ IF cast[wk[r].n].ex
       THEN /\ wk' = [wk EXCEPT ![r].pc = "chkmp4"]
            /\ prog' = prog
       ELSE /\ wk' = [wk EXCEPT ![r] = Return("failed")]
            /\ prog' = WriteProgress(KeyOf(wk[r]), RecCastNotFound)
    /\ UNCHANGED <<cast, mp4, req, resp>>

\* if os.path.exists(mp4_path): write the record and return
WCheckMp4(r) ==
    /\ wk[r].pc = "chkmp4"
    /\ IF Exists(KeyOf(wk[r]))
       THEN /\ wk' = [wk EXCEPT ![r] = Return("done")]
            /\ prog' = WriteProgress(KeyOf(wk[r]), RecExists)
       ELSE /\ wk' = [wk EXCEPT ![r].pc = "read"]
            /\ prog' = prog
    /\ UNCHANGED <<cast, mp4, req, resp>>

\* [json.loads(l) for l in lines[1:] if l.strip() and l.startswith("[")]
RECURSIVE LoadEvents(_)
LoadEvents(ls) ==
    IF ls = <<>> THEN <<>>
    ELSE IF StartsWithBracket(Head(ls))
         THEN <<Head(ls).e>> \o LoadEvents(Tail(ls))
         ELSE LoadEvents(Tail(ls))

\* the exception raised while the worker loads the recording, "" if none
LoadError(f) ==
    IF ~f.ex THEN "FileNotFoundError"
    ELSE IF f.lines = <<>> THEN "IndexError"
    ELSE IF ~JsonLoads(Head(f.lines)) THEN "JSONDecodeError"
    ELSE IF \E j \in 2..Len(f.lines) :
                StartsWithBracket(f.lines[j]) /\ ~JsonLoads(f.lines[j])
         THEN "JSONDecodeError"
    ELSE IF Head(f.lines).k # "obj" THEN "AttributeError"
    ELSE IF \E j \in 2..Len(f.lines) :
                StartsWithBracket(f.lines[j]) /\ Len(f.lines[j].e) < 2
         THEN "IndexError"
    ELSE ""

\* [e for e in events if start_time <= e[0] <= end_time]
RECURSIVE InRange(_, _, _)
InRange(es, s, e) ==
    IF es = <<>> THEN <<>>
    ELSE IF s <= Head(es)[1] /\ Head(es)[1] <= e
         THEN <<Head(es)>> \o InRange(Tail(es), s, e)
         ELSE InRange(Tail(es), s, e)

\* time_offset = filtered_events[-1][0]
ShiftByLast(es) ==
    IF es = <<>> THEN es
    ELSE [j \in 1..Len(es) |-> [es[j] EXCEPT ![1] = @ - es[Len(es)][1]]]

\* for e in filtered_events: e[0] -= time_offset
Shift(es) ==
    IF es = <<>> THEN es
    ELSE [j \in 1..Len(es) |-> [es[j] EXCEPT ![1] = @ - es[1][1]]]

\* [evt for evt in events if evt[1] == "o"]
RECURSIVE OutputEvents(_)
OutputEvents(es) ==
    IF es = <<>> THEN <<>>
    ELSE IF Head(es)[2] = "o"
         THEN <<Head(es)>> \o OutputEvents(Tail(es))
         ELSE OutputEvents(Tail(es))

\* the events of the recording (of its range), input events included
WorkerEventsAll(lines, rg) ==
    IF rg = Full
    THEN LoadEvents(Tail(lines))
    ELSE Shift(InRange(LoadEvents(Tail(lines)), rg[1], rg[2]))

\* the events the worker replays: output_events
WorkerEvents(lines, rg) ==
    IF rg = Full
    THEN OutputEvents(LoadEvents(Tail(lines)))
    ELSE OutputEvents(Shift(InRange(LoadEvents(Tail(lines)), rg[1], rg[2])))

\* open(cast_path) up to the start of the frame loop
WRead(r) ==
    /\ wk[r].pc = "read"
    /\ LET f == cast[wk[r].n]
       IN IF LoadError(f) # ""
          THEN OnException(r, LoadError(f))
          ELSE /\ wk' = [wk EXCEPT ![r].pc = IF WorkerEvents(f.lines, wk[r].rg) = <<>>
                                                 THEN "wrenc" ELSE "loop",
                                   ![r].evs = WorkerEvents(f.lines, wk[r].rg)]
               /\ prog' = prog
    /\ UNCHANGED <<cast, mp4, req, resp>>

\* a record after every selected frame
WritesProgressAlways(nimg, i, nout) == TRUE

\* if len(images) % 5 == 0 or i == len(output_events) - 1
WritesProgress(nimg, i, nout) == nimg % 5 = 0 \/ i = nout - 1

\* current_hash != last_screen_hash is false: the display is the one of the
\* last selected frame (last_screen_hash is None before the first frame)
SameAsPrevStep(w, scr) == scr = w.scr

SameAsLast(w, scr) == w.hashed /\ scr = w.last

\* except Exception as e: print(f"[!] Frame {i} error: {e}"), after
\* stream.feed raised: the loop goes on with the next event
OnFeedErrorAbort(r, next) == OnException(r, "TypeError")

OnFeedError(r, next) ==
    /\ wk' = [wk EXCEPT ![r].i = wk[r].i + 1, ![r].pc = next]
    /\ prog' = prog

\* one iteration of the frame loop; render is the outcome of tty2img:
\* "ok", "fallback" (the second call succeeds) or "fail" (both raise)
WFrame(r) ==
    /\ wk[r].pc = "loop"
    /\ wk[r].i < Len(wk[r].evs)
    /\ LET w == wk[r]
           evt == w.evs[w.i + 1]
           scr == Feed(w.scr, evt[3])
           sgr == FeedAttrs(w.sgr, evt[3])
           next == IF w.i + 1 = Len(w.evs) THEN "wrenc" ELSE "loop"
       IN IF FeedRaises(evt[3])
          THEN OnFeedError(r, next)
          ELSE IF SameAsLast(w, scr)
          THEN /\ wk' = [wk EXCEPT ![r].i = w.i + 1, ![r].pc = next, ![r].scr = scr,
                                   ![r].sgr = sgr]
               /\ prog' = prog
          ELSE \E render \in {"ok", "fallback", "fail"} :
                 IF render = "fail"
                 THEN /\ wk' = [wk EXCEPT ![r].i = w.i + 1, ![r].pc = next,
                                          ![r].scr = scr, ![r].sgr = sgr,
                                          ![r].rfail = TRUE]
                      /\ prog' = prog
                 ELSE LET writes == WritesProgress(w.nimg + 1, w.i, Len(w.evs))
                          rec == FrameProgress(w.i, Len(w.evs), w.nimg + 1)
                      IN /\ wk' = [wk EXCEPT ![r].i = w.i + 1, ![r].pc = next,
                                             ![r].scr = scr, ![r].sgr = sgr,
                                             ![r].nimg = w.nimg + 1,
                                             ![r].ts = Append(w.ts, evt[1]),
                                             ![r].hashed = TRUE, ![r].last = scr,
                                             ![r].nw = IF writes THEN w.nw + 1
                                                       ELSE w.nw,
                                             ![r].wrote = IF writes THEN rec
                                                          ELSE w.wrote]
                         /\ prog' = IF writes THEN WriteProgress(KeyOf(w), rec)
                                    ELSE prog
    /\ UNCHANGED <<cast, mp4, req, resp>>

(***************************************************************************)
(* The frame rate.  A rate and a duration are fractions num/den; a den of  *)
(* 0 stands for the ZeroDivisionError of a division by zero.  The times of *)
(* the frames are counted in d-ths of a second.                            *)
(***************************************************************************)
\* sum(s2 - s1 for s1, s2 in zip(timestamps, timestamps[1:]))
RECURSIVE SumDurations(_)
SumDurations(ts) ==
    IF Len(ts) < 2 THEN 0
    ELSE (ts[2] - ts[1]) + SumDurations(Tail(ts))

\* mean_duration, in seconds
MeanDuration(ts, d) ==
    IF Len(ts) > 1
    THEN [num |-> SumDurations(ts), den |-> d * (Len(ts) - 1)]
    ELSE [num |-> 1, den |-> 2]

\* 1 / mean_duration whatever mean_duration is
InverseUnguarded(m) == [num |-> m.den, den |-> m.num]

\* 1 / mean_duration if mean_duration > 0 else 2
Inverse(m) ==
    IF m.num > 0 THEN [num |-> m.den, den |-> m.num] ELSE [num |-> 2, den |-> 1]

MinFps == 5

\* max(fps, 5)
AtLeastMinFps(f) ==
    IF f.den > 0 /\ f.num < MinFps * f.den THEN [num |-> MinFps, den |-> 1] ELSE f

\* the fps handed to ImageSequenceClip and write_videofile
Fps(ts, d) == AtLeastMinFps(Inverse(MeanDuration(ts, d)))

\* the "Encoding MP4..." record
WEncodingRecord(r) ==
    /\ wk[r].pc = "wrenc"
    /\ prog' = WriteProgress(KeyOf(wk[r]), RecEncoding)
    /\ wk' = [wk EXCEPT ![r].pc = IF wk[r].nimg > 0 THEN "enc" ELSE "wrnone",
                         ![r].wrote = RecEncoding]
    /\ UNCHANGED <<cast, mp4, req, resp>>

\* clip.write_videofile creates the file and starts writing it
WEncodeStart(r) ==
    /\ wk[r].pc = "enc"
    /\ mp4' = [mp4 EXCEPT ![KeyOf(wk[r])] =
                 [st |-> "partial", of |-> wk[r].evs, frames |-> 0,
                  fps |-> Fps(wk[r].ts, 1), age |-> 0]]
    /\ wk' = [wk EXCEPT ![r].pc = "encoding"]
    /\ UNCHANGED <<cast, prog, req, resp>>

\* clip.write_videofile returns
WEncodeFinish(r) ==
    /\ wk[r].pc = "encoding"
    /\ mp4' = [mp4 EXCEPT ![KeyOf(wk[r])] =
                 [st |-> "complete", of |-> wk[r].evs, frames |-> wk[r].nimg,
                  fps |-> Fps(wk[r].ts, 1),
                  age |-> 0]]
    /\ wk' = [wk EXCEPT ![r].pc = "wrdone"]
    /\ UNCHANGED <<cast, prog, req, resp>>

\* clip.write_videofile raises, before or after it created the file
WEncodeFail(r) ==
    /\ wk[r].pc \in {"enc", "encoding"}
    /\ OnException(r, "EncodeError")
    /\ UNCHANGED <<cast, mp4, req, resp>>

\* the "Done" record
WDoneRecord(r) ==
    /\ wk[r].pc = "wrdone"
    /\ prog' = WriteProgress(KeyOf(wk[r]), RecDone)
    /\ wk' = [wk EXCEPT ![r] = Return("done")]
    /\ UNCHANGED <<cast, mp4, req, resp>>

\* the "No frames generated!" record
WNoFrames(r) ==
    /\ wk[r].pc = "wrnone"
    /\ prog' = WriteProgress(KeyOf(wk[r]), RecNoFrames)
    /\ wk' = [wk EXCEPT ![r] = Return("done")]
    /\ UNCHANGED <<cast, mp4, req, resp>>

(***************************************************************************)
(* /view, /extract and /search.  The payloads of the recordings these      *)
(* requests name are sequences of characters; a payload that is no string  *)
(* is the one-element sequence <<NonString>>.                              *)
(***************************************************************************)
NonStringText == <<NonString>>

\* isinstance(payload, str): payload.lower() does not raise
IsString(p) == p # NonStringText

\* the text as it is
AsIs(t) == t

\* str.lower, on the letters of the model
Lower(c) ==
    CASE c = "L" -> "l"
      [] c = "S" -> "s"
      [] OTHER -> c

LowerText(t) == [j \in 1..Len(t) |-> Lower(t[j])]

\* q in t
Contains(t, q) ==
    \E j \in 0..(Len(t) - Len(q)) : SubSeq(t, j + 1, j + Len(q)) = q

\* evt[2][:100] + "..." if len(evt[2]) > 100 else evt[2]
ExcerptLen == 100

ExcerptAtLimit(p) ==
    IF Len(p) >= ExcerptLen THEN SubSeq(p, 1, ExcerptLen) \o <<".", ".", ".">>
    ELSE p

Excerpt(p) ==
    IF Len(p) > ExcerptLen THEN SubSeq(p, 1, ExcerptLen) \o <<".", ".", ".">>
    ELSE p

\* a payload of n characters that starts with "LS"
Long(n) == [j \in 1..n |-> IF j = 1 THEN "L" ELSE IF j = 2 THEN "S" ELSE "a"]

\* the session files /view and /search name
TSorted ==
    [lines |-> <<Obj(Hdr), Arr(<<0, "o", <<"l", "s">>>>),
                 Arr(<<1, "i", <<"L", "S">>>>), Garbage,
                 IndArr(<<2, "o", <<"a", "L", "s", "b">>>>),
                 Arr(<<3, "o", NonStringText>>)>>, mtime |-> 5]
TUnsorted ==
    [lines |-> <<Obj(Hdr), Arr(<<2, "o", <<"l", "s">>>>),
                 Arr(<<1, "o", <<"L", "s", "x">>>>),
                 Arr(<<3, "m", <<"l", "s">>>>)>>, mtime |-> 5]
TLong ==
    [lines |-> <<Obj(Hdr), Arr(<<0, "o", Long(ExcerptLen)>>),
                 Arr(<<1, "o", Long(ExcerptLen + 1)>>),
                 Arr(<<2, "o", <<"x">>>>)>>, mtime |-> 5]
TBadHeader ==
    [lines |-> <<Garbage, Arr(<<1, "o", <<"l", "s">>>>)>>, mtime |-> 5]
THeaderless ==
    [lines |-> <<Arr(<<0, "o", <<"l", "s">>>>), Arr(<<1, "o", <<"l", "s">>>>)>>,
     mtime |-> 5]

ToolSources == {EmptyFile, TSorted, TUnsorted, TLong, TBadHeader, THeaderless}

Queries == {<<>>, <<"l", "s">>, <<"L", "S">>, <<"x">>, <<"s", "b">>, <<"z">>}

\* float(request.args.get("start")), float(request.args.get("end"))
Times == 0..3

\* /view: cast_path = convert_to_cast(path); the page names cast_path
View(n, src) ==
    /\ ~cast[n].ex
    /\ cast' = [cast EXCEPT ![n] =
                  [ex |-> TRUE, lines |-> ConvertToCast(src), age |-> 0]]
    /\ op' = [NoOp EXCEPT !.name = "view", !.n = n, !.src = src]
    /\ UNCHANGED <<pfile, pcast, mp4, prog, req, wk, resp, calc, lnch>>

\* the exception /extract raises, "" if none
ExtractError(f) ==
    IF ~f.ex THEN "FileNotFoundError"
    ELSE IF f.lines = <<>> THEN "IndexError"
    ELSE IF \E j \in 2..Len(f.lines) :
                StartsWithBracket(f.lines[j]) /\ ~JsonLoads(f.lines[j])
         THEN "JSONDecodeError"
    ELSE IF \E j \in 2..Len(f.lines) :
                StartsWithBracket(f.lines[j]) /\ Len(f.lines[j].e) < 1
         THEN "IndexError"
    ELSE ""

\* [e for e in body if start <= e[0] <= end], upper bound left out
RECURSIVE FilteredFrom(_, _, _)
FilteredFrom(es, s, e) ==
    IF es = <<>> THEN <<>>
    ELSE IF s <= Head(es)[1]
         THEN <<Head(es)>> \o FilteredFrom(Tail(es), s, e)
         ELSE FilteredFrom(Tail(es), s, e)

\* filtered = [e for e in body if start <= e[0] <= end]
Filtered(es, s, e) == InRange(es, s, e)

\* w.write(header), only when an event is written
ExtractLinesNoHeader(header, filtered) ==
    IF filtered = <<>> THEN <<>> ELSE <<header>> \o DumpEvents(filtered)

\* w.write(header); for line in filtered: w.write(json.dumps(line) + "\n")
ExtractLines(header, filtered) == <<header>> \o DumpEvents(filtered)

\* /extract?file=cast_path&start=s&end=e.  outpath is basename(path) in the
\* temporary directory: for a cast_path of convert_to_cast it is path itself
Extract(n, s, e) ==
    /\ LET f == cast[n]
       IN IF ExtractError(f) # ""
          THEN /\ cast' = cast
               /\ op' = [NoOp EXCEPT !.name = "extract", !.n = n, !.s = s,
                                     !.e = e, !.error = ExtractError(f)]
          ELSE LET out == ExtractLines(Head(f.lines),
                                       Filtered(LoadEvents(Tail(f.lines)), s, e))
               IN /\ cast' = [cast EXCEPT ![n] =
                                [ex |-> TRUE, lines |-> out, age |-> 0]]
                  /\ op' = [NoOp EXCEPT !.name = "extract", !.n = n, !.s = s,
                                        !.e = e, !.out = out]
    /\ UNCHANGED <<pfile, pcast, mp4, prog, req, wk, resp, calc, lnch>>

\* the loop of /search over lines[1:]: i is the line number of Head(ls), nev
\* is len(events)
RECURSIVE SearchLines(_, _, _, _)
SearchLines(ls, i, nev, q) ==
    IF ls = <<>> THEN <<>>
    ELSE LET l == Head(ls)
         IN IF ~StripStartsWithBracket(l) \/ ~JsonLoads(l)
            THEN SearchLines(Tail(ls), i + 1, nev, q)
            ELSE IF ~(IsEvent(l) /\ l.e[2] = "o")
            THEN SearchLines(Tail(ls), i + 1, nev, q)
            ELSE IF IsString(l.e[3]) /\ Contains(LowerText(l.e[3]), LowerText(q))
            THEN <<[index |-> nev, timestamp |-> l.e[1],
                    content |-> Excerpt(l.e[3]), line_number |-> i]>>
                 \o SearchLines(Tail(ls), i + 1, nev + 1, q)
            ELSE SearchLines(Tail(ls), i + 1, nev + 1, q)

\* the answer of /search without the test of the query
SearchAnswerNoTest(lines, q) ==
    IF lines = <<>> THEN [error |-> "IndexError", results |-> <<>>, total |-> 0]
    ELSE IF ~JsonLoads(Head(lines))
    THEN [error |-> "JSONDecodeError", results |-> <<>>, total |-> 0]
    ELSE [error |-> "", results |-> SearchLines(Tail(lines), 1, 0, q),
          total |-> Len(SearchLines(Tail(lines), 1, 0, q))]

\* the answer of /search for the lines of the normalised recording
SearchAnswer(lines, q) ==
    IF q = <<>> THEN [error |-> "", results |-> <<>>, total |-> 0]
    ELSE IF lines = <<>> THEN [error |-> "IndexError", results |-> <<>>, total |-> 0]
    ELSE IF ~JsonLoads(Head(lines))
    THEN [error |-> "JSONDecodeError", results |-> <<>>, total |-> 0]
    ELSE [error |-> "", results |-> SearchLines(Tail(lines), 1, 0, q),
          total |-> Len(SearchLines(Tail(lines), 1, 0, q))]

\* /search?file=path&q=query; the temporary file of convert_to_cast is read
\* by this request only
Search(src, q) ==
    /\ op' = [NoOp EXCEPT !.name = "search", !.src = src, !.q = q,
                          !.error = SearchAnswer(ConvertToCast(src), q).error,
                          !.out = SearchAnswer(ConvertToCast(src), q).results,
                          !.total = SearchAnswer(ConvertToCast(src), q).total]
    /\ UNCHANGED <<pfile, pcast, cast, mp4, prog, req, wk, resp, calc, lnch>>

\* no frame rate computed yet
NoCalc == [ts |-> <<>>, d |-> 1, fps |-> NoFps, done |-> FALSE]

\* the launcher has not run
NotLaunched == [pc |-> "off"]

Init ==
    /\ JobIdle
    /\ pfile = [lines |-> <<>>, mtime |-> 5]
    /\ pcast = NotParsed
    /\ calc = NoCalc
    /\ lnch = NotLaunched

AllReturned == \A w \in Wks : wk[w].pc \in Final

\* concurrent requests and workers; every request draws the same temporary
\* name as soon as it is free again
Next ==
    \/ Tick /\ UNCHANGED pvars
    \/ \E r \in Reqs : Request(r, SmallSources, {Full}, {1}) /\ UNCHANGED pvars
    \/ \E r \in Reqs : Check(r) /\ UNCHANGED pvars
    \/ \E r \in Reqs : ThreadStartFails(r) /\ UNCHANGED pvars
    \/ \E k \in {x \in Keys : x.n = 1 /\ x.rg = Full} : Progress(k) /\ UNCHANGED pvars
    \/ \E w \in Wks : WCleanup(w) /\ UNCHANGED pvars
    \/ \E w \in Wks : WCheckCast(w) /\ UNCHANGED pvars
    \/ \E w \in Wks : WCheckMp4(w) /\ UNCHANGED pvars
    \/ \E w \in Wks : WRead(w) /\ UNCHANGED pvars
    \/ \E w \in Wks : WFrame(w) /\ UNCHANGED pvars
    \/ \E w \in Wks : WEncodingRecord(w) /\ UNCHANGED pvars
    \/ \E w \in Wks : WEncodeStart(w) /\ UNCHANGED pvars
    \/ \E w \in Wks : WEncodeFinish(w) /\ UNCHANGED pvars
    \/ \E w \in Wks : WEncodeFail(w) /\ UNCHANGED pvars
    \/ \E w \in Wks : WDoneRecord(w) /\ UNCHANGED pvars
    \/ \E w \in Wks : WNoFrames(w) /\ UNCHANGED pvars

Spec == Init /\ [][Next]_vars

\* one job at a time, every recording and both routes
NextSolo ==
    \/ Tick /\ UNCHANGED pvars
    \/ Request(1, Sources, Ranges \cup {Full}, {1}) /\ AllReturned /\ UNCHANGED pvars
    \/ \E r \in {1} : Check(r) /\ UNCHANGED pvars
    \/ \E r \in {1} : ThreadStartFails(r) /\ UNCHANGED pvars
    \/ \E k \in {x \in Keys : x.n = 1} : Progress(k) /\ UNCHANGED pvars
    \/ \E w \in Wks : WCleanup(w) /\ UNCHANGED pvars
    \/ \E w \in Wks : WCheckCast(w) /\ UNCHANGED pvars
    \/ \E w \in Wks : WCheckMp4(w) /\ UNCHANGED pvars
    \/ \E w \in Wks : WRead(w) /\ UNCHANGED pvars
    \/ \E w \in Wks : WFrame(w) /\ UNCHANGED pvars
    \/ \E w \in Wks : WEncodingRecord(w) /\ UNCHANGED pvars
    \/ \E w \in Wks : WEncodeStart(w) /\ UNCHANGED pvars
    \/ \E w \in Wks : WEncodeFinish(w) /\ UNCHANGED pvars
    \/ \E w \in Wks : WEncodeFail(w) /\ UNCHANGED pvars
    \/ \E w \in Wks : WDoneRecord(w) /\ UNCHANGED pvars
    \/ \E w \in Wks : WNoFrames(w) /\ UNCHANGED pvars

SpecSolo == Init /\ [][NextSolo]_vars

\* one job at a time, every temporary name
NextNames ==
    \/ Tick /\ UNCHANGED pvars
    \/ Request(1, {OneOutput}, {Full}, Names) /\ AllReturned /\ UNCHANGED pvars
    \/ \E r \in {1} : Check(r) /\ UNCHANGED pvars
    \/ \E r \in {1} : ThreadStartFails(r) /\ UNCHANGED pvars
    \/ \E k \in {x \in Keys : x.rg = Full} : Progress(k) /\ UNCHANGED pvars
    \/ \E w \in Wks : WCleanup(w) /\ UNCHANGED pvars
    \/ \E w \in Wks : WCheckCast(w) /\ UNCHANGED pvars
    \/ \E w \in Wks : WCheckMp4(w) /\ UNCHANGED pvars
    \/ \E w \in Wks : WRead(w) /\ UNCHANGED pvars
    \/ \E w \in Wks : WFrame(w) /\ UNCHANGED pvars
    \/ \E w \in Wks : WEncodingRecord(w) /\ UNCHANGED pvars
    \/ \E w \in Wks : WEncodeStart(w) /\ UNCHANGED pvars
    \/ \E w \in Wks : WEncodeFinish(w) /\ UNCHANGED pvars
    \/ \E w \in Wks : WEncodeFail(w) /\ UNCHANGED pvars
    \/ \E w \in Wks : WDoneRecord(w) /\ UNCHANGED pvars
    \/ \E w \in Wks : WNoFrames(w) /\ UNCHANGED pvars

SpecNames == Init /\ [][NextNames]_vars

\* one client, a temporary name each time, a job still running when the
\* next request comes
NextPair ==
    \/ Tick /\ UNCHANGED pvars
    \/ Request(1, {OneOutput}, {Full}, Names) /\ UNCHANGED pvars
    \/ \E r \in {1} : Check(r) /\ UNCHANGED pvars
    \/ \E w \in Wks : WCleanup(w) /\ UNCHANGED pvars
    \/ \E w \in Wks : WCheckCast(w) /\ UNCHANGED pvars
    \/ \E w \in Wks : WCheckMp4(w) /\ UNCHANGED pvars
    \/ \E w \in Wks : WRead(w) /\ UNCHANGED pvars
    \/ \E w \in Wks : WFrame(w) /\ UNCHANGED pvars
    \/ \E w \in Wks : WEncodingRecord(w) /\ UNCHANGED pvars
    \/ \E w \in Wks : WEncodeStart(w) /\ UNCHANGED pvars
    \/ \E w \in Wks : WEncodeFinish(w) /\ UNCHANGED pvars
    \/ \E w \in Wks : WEncodeFail(w) /\ UNCHANGED pvars
    \/ \E w \in Wks : WDoneRecord(w) /\ UNCHANGED pvars
    \/ \E w \in Wks : WNoFrames(w) /\ UNCHANGED pvars

SpecPair == Init /\ [][NextPair]_vars

\* the steps the program takes by itself once a request is in: the handler's
\* test and the steps of the worker threads
HandlerStep == \E r \in {1} : Check(r) /\ UNCHANGED pvars

WorkerStep ==
    \E w \in Wks :
        /\ \/ WCleanup(w) \/ WCheckCast(w) \/ WCheckMp4(w) \/ WRead(w) \/ WFrame(w)
           \/ WEncodingRecord(w) \/ WEncodeStart(w) \/ WEncodeFinish(w)
           \/ WEncodeFail(w) \/ WDoneRecord(w) \/ WNoFrames(w)
        /\ UNCHANGED pvars

\* SpecNames where a handler that is in answers, a started thread runs on and
\* time passes; requests and polls come as the clients please
SpecNamesFair ==
    /\ Init /\ [][NextNames]_vars
    /\ WF_vars(HandlerStep)
    /\ WF_vars(WorkerStep)
    /\ WF_vars(Tick /\ UNCHANGED pvars)

\* the normaliser alone, on every file of the input pool
InitParse ==
    /\ pfile \in [lines : SeqsUpTo(LinePool, MaxLines), mtime : {5}]
    /\ pcast = NotParsed
    /\ JobIdle
    /\ calc = NoCalc
    /\ lnch = NotLaunched

NextParse == Parse /\ UNCHANGED jvars

SpecParse == InitParse /\ [][NextParse]_vars

(***************************************************************************)
(* esw-launcher.py: auto_update.  FILES are tty2img.py (1) and the main    *)
(* script (2); a hash is "a", "b" or "none" (sha256sum of a missing file,  *)
(* get_remote_sha256 of a failed fetch); "partial" is the content a failed *)
(* download leaves.  local0 is the content before the launcher ran, seen   *)
(* the pairs of hashes it compared.                                        *)
(***************************************************************************)
FILES == 1..2
MainScript(f) == f = 2
Contents == {"a", "b"}

\* if local_hash != remote_hash, taken as true whatever the hashes
MismatchAlways(l, r) == TRUE

\* if local_hash != remote_hash
Mismatch(l, r) == l # r

\* one iteration of the first loop of auto_update over FILES
LCompare ==
    /\ lnch.pc = "compare"
    /\ \E fetched \in BOOLEAN :
         LET f == lnch.i
             local_hash == lnch.local[f]
             remote_hash == IF fetched THEN lnch.remote[f] ELSE "none"
             found == Mismatch(local_hash, remote_hash)
         IN lnch' = [lnch EXCEPT
                       !.seen = Append(@, <<local_hash, remote_hash>>),
                       !.needs_update = found,
                       !.i = IF found \/ f = 2 THEN 1 ELSE f + 1,
                       !.pc = IF found THEN "ask"
                              ELSE IF f = 2 THEN "done" ELSE "compare"]
    /\ UNCHANGED <<pfile, pcast, op, calc>>

\* ask_update: the answer that ends its loop
LAsk ==
    /\ lnch.pc = "ask"
    /\ \E rep \in {"yes", "no"} :
         lnch' = [lnch EXCEPT !.answer = rep,
                              !.pc = IF rep = "yes" THEN "update" ELSE "done"]
    /\ UNCHANGED <<pfile, pcast, op, calc>>

\* one iteration of the second loop: urlretrieve, then os.execv for the main
\* script; an exception of either is caught and the loop goes on
LUpdate ==
    /\ lnch.pc = "update"
    /\ \E retrieved \in {"ok", "partial", "raises"}, execv \in {"ok", "raises"} :
         LET f == lnch.i
             next == IF f = 2 THEN "done" ELSE "update"
         IN IF retrieved = "ok"
            THEN lnch' = [lnch EXCEPT
                            !.local[f] = lnch.remote[f],
                            !.i = IF f = 2 THEN 1 ELSE f + 1,
                            !.pc = IF MainScript(f) /\ execv = "ok"
                                   THEN "restarted" ELSE next]
            ELSE lnch' = [lnch EXCEPT
                            !.local[f] = IF retrieved = "partial" THEN "partial"
                                         ELSE @,
                            !.i = IF f = 2 THEN 1 ELSE f + 1,
                            !.pc = next]
    /\ UNCHANGED <<pfile, pcast, op, calc>>

InitLaunch ==
    /\ JobIdle
    /\ pfile = [lines |-> <<>>, mtime |-> 5]
    /\ pcast = NotParsed
    /\ calc = NoCalc
    /\ \E local \in [FILES -> Contents \cup {"none"}], remote \in [FILES -> Contents] :
         lnch = [pc |-> "compare", i |-> 1, local |-> local, local0 |-> local,
                 remote |-> remote, needs_update |-> FALSE, answer |-> "",
                 seen |-> <<>>]

NextLaunch ==
    \/ LCompare /\ UNCHANGED jvars
    \/ LAsk /\ UNCHANGED jvars
    \/ LUpdate /\ UNCHANGED jvars

SpecLaunch == InitLaunch /\ [][NextLaunch]_vars

\* the frame rate of every short sequence of frame times, in seconds and in
\* tenths of a second
FrameTimes == 0..3
InitFps ==
    /\ JobIdle
    /\ pfile = [lines |-> <<>>, mtime |-> 5]
    /\ pcast = NotParsed
    /\ lnch = NotLaunched
    /\ calc \in [ts : SeqsUpTo(FrameTimes, MaxLines) \ {<<>>}, d : {1, 10},
                 fps : {NoFps}, done : {FALSE}]

ComputeFps ==
    /\ ~calc.done
    /\ calc' = [calc EXCEPT !.fps = Fps(calc.ts, calc.d), !.done = TRUE]
    /\ UNCHANGED <<pfile, pcast, op, lnch>>

NextFps == ComputeFps /\ UNCHANGED jvars

SpecFps == InitFps /\ [][NextFps]_vars

\* the pages of the sessions: /view, /extract with the cast_path of the page,
\* /search with the path of the session
NextTools ==
    \/ \E n \in {1}, src \in ToolSources : View(n, src)
    \/ \E n \in {1}, s \in Times, e \in Times : Extract(n, s, e)
    \/ \E src \in ToolSources, q \in Queries : Search(src, q)

SpecTools == Init /\ [][NextTools]_vars

(***************************************************************************)
(* Properties.                                                             *)
(***************************************************************************)
Live(w) == wk[w].pc \notin Final

\* C1: two requests with the same output path never have two workers running
\* for that path at once (at most one worker is started per key).
C1_OneWorkerPerKey ==
    \A w1 \in Wks, w2 \in Wks :
        (w1 # w2 /\ Live(w1) /\ Live(w2)) => KeyOf(wk[w1]) # KeyOf(wk[w2])

\* C2: the output path is determined by the source recording and the range:
\* a request for a recording and range whose finished video is on storage has
\* the key of that video (and so is a cache hit).
C2_SameSourceSameKey ==
    \A r \in Reqs, k \in Keys :
        ( /\ req[r].pc = "check"
          /\ req[r].src.lines # <<>>
          /\ k.rg = req[r].rg
          /\ mp4[k].st = "complete"
          /\ mp4[k].of = WorkerEvents(ConvertToCast(req[r].src), req[r].rg) )
        => k.n = req[r].n

\* C3: a request whose output file exists starts no worker and changes no
\* file, and /progress for a path whose output file exists answers done=true
\* with progress 1.0.
C3_CacheHit ==
    [][ /\ \A r \in Reqs :
             (req[r].pc = "check" /\ req'[r].pc # "check" /\ Exists(KeyOf(req[r])))
             => (wk' = wk /\ mp4' = mp4 /\ prog' = prog)
        /\ \A k \in Keys :
             (resp' # resp /\ resp'.k = k /\ Exists(k))
             => (resp'.rec.done /\ resp'.rec.num = resp'.rec.den) ]_vars

C3_Witness ==
    /\ \E r \in Reqs : req[r].out = "cached"
    /\ Exists(resp.k)
    /\ resp.rec.done

\* C4: a request whose key has a progress record and no output file starts no
\* worker and writes nothing.
C4_NoSecondWorker ==
    [][ \A r \in Reqs :
          ( /\ req[r].pc = "check"
            /\ req'[r].pc # "check"
            /\ prog[KeyOf(req[r])].ex
            /\ ~Exists(KeyOf(req[r])) )
          => (wk' = wk /\ mp4' = mp4 /\ prog' = prog) ]_vars

C4_Witness ==
    /\ \E r \in Reqs : req[r].out = "attached"
    /\ \E w \in Wks : Live(w) /\ prog[KeyOf(wk[w])].ex /\ ~Exists(KeyOf(wk[w]))

\* C5: when the record of a key says that its job failed and /progress answers
\* done=true for the key, the output file is complete and holds every frame.
C5_DoneImpliesComplete ==
    \A k \in Keys :
        (prog[k].ex /\ prog[k].rec.text = "Error" /\ ProgressAnswer(k).done)
        => mp4[k].st = "complete"

\* C6: when a worker ends with a failure, the record of its key is a failed
\* status (progress 0, not done) with the error text, and no handler and no
\* other worker is affected.
C6_FailureRecorded ==
    [][ \A w \in Wks :
          (Live(w) /\ wk'[w].pc = "failed")
          => LET k == KeyOf(wk[w])
             IN /\ prog'[k].ex
                /\ prog'[k].rec.text = "Error"
                /\ prog'[k].rec.err # ""
                /\ ~prog'[k].rec.done
                /\ prog'[k].rec.num = 0
                /\ req' = req
                /\ \A v \in Wks \ {w} : wk'[v] = wk[v] ]_vars

C6_Witness ==
    /\ \E w \in Wks : wk[w].pc = "failed"
    /\ \E k \in Keys : prog[k].ex /\ prog[k].rec.text = "Error"
                       /\ prog[k].rec.err = "IndexError"

\* C7: a worker that selected no frame (as it must when there is no output
\* event) goes on to write the "No frames generated!" record with done=true
\* and progress 1.0, creates no output file, and ends without failure.
C7_NoFramesIsDone ==
    [][ \A w \in Wks :
          LET k == KeyOf(wk[w])
          IN /\ (wk'[w].pc = "wrenc" /\ wk'[w].evs = <<>>) => wk'[w].nimg = 0
             /\ (wk[w].pc = "wrenc" /\ wk[w].nimg = 0 /\ wk'[w] # wk[w])
                => (wk'[w].pc = "wrnone" /\ mp4' = mp4)
             /\ (wk[w].pc = "wrnone" /\ wk'[w] # wk[w])
                => /\ wk'[w].pc = "done"
                   /\ prog'[k].ex
                   /\ prog'[k].rec.done
                   /\ prog'[k].rec.num = prog'[k].rec.den
                   /\ prog'[k].rec.text = "No frames generated!"
                   /\ mp4' = mp4
                   /\ ~Exists(k) ]_vars

C7_Witness ==
    /\ \E w \in Wks : wk[w].pc = "done"
    /\ \E k \in Keys : /\ prog[k].ex
                       /\ prog[k].rec.text = "No frames generated!"
                       /\ prog[k].rec.done
                       /\ ~Exists(k)

\* C8: every record on storage and every answer of /progress has a progress
\* value in [0, 1].
InUnit(rec) == rec.den > 0 /\ 0 <= rec.num /\ rec.num <= rec.den

C8_ProgressInUnit ==
    /\ \A k \in Keys : prog[k].ex => InUnit(prog[k].rec)
    /\ \A k \in Keys : InUnit(ProgressAnswer(k))
    /\ InUnit(resp.rec)

C8_Witness ==
    \E k \in Keys : /\ prog[k].ex
                    /\ prog[k].rec.text = "Processing frame"
                    /\ prog[k].rec.num = 2
                    /\ prog[k].rec.den = 3
                    /\ resp = [k |-> k, rec |-> prog[k].rec]

\* C9: the events of the parsed recording are exactly the well-formed event
\* lines after the first line, in order: blank lines, lines that are no
\* array and lines that are no JSON are skipped, whatever follows them.
WellFormedEvent(l) == l.k = "arr" /\ Len(l.e) >= 3

C9_SkipsMalformedLines ==
    (pcast # NotParsed /\ pfile.lines # <<>>)
    => LET want == SelectSeq(Tail(pfile.lines), WellFormedEvent)
       IN /\ Len(pcast) = 1 + Len(want)
          /\ pcast[1].k = "obj"
          /\ \A j \in 1..Len(want) :
               pcast[j + 1].k = "arr" /\ pcast[j + 1].e = want[j].e

C9_Witness ==
    /\ pcast # NotParsed
    /\ Len(pfile.lines) = 4
    /\ WellFormedEvent(pfile.lines[2])
    /\ pfile.lines[3] = BadArr
    /\ WellFormedEvent(pfile.lines[4])
    /\ Len(pcast) = 3
    /\ pcast[2].e = pfile.lines[2].e
    /\ pcast[3].e = pfile.lines[4].e

\* C10: when the first line is a JSON object, every field of the written
\* header is the field of that object when it has one and the default
\* otherwise.
C10_HeaderFieldsOverride ==
    (pcast # NotParsed /\ pfile.lines # <<>> /\ Head(pfile.lines).k = "obj")
    => LET m == Head(pfile.lines).f
           d == DefaultHeader(pfile.mtime)
       IN \A x \in DOMAIN d :
            pcast[1].f[x] = IF x \in DOMAIN m THEN m[x] ELSE d[x]

\* the events of a normalised recording: its lines after the header
EventsOf(lines) ==
    IF lines = <<>> THEN <<>>
    ELSE [j \in 1..(Len(lines) - 1) |-> lines[j + 1].e]

\* the well-formed event lines of a file, the first line included
ValidEvents(lines) ==
    LET want == SelectSeq(lines, WellFormedEvent)
    IN [j \in 1..Len(want) |-> want[j].e]

\* normalising the normalised recording again leaves its events as they are
C11_Idempotent ==
    (pcast # NotParsed)
    => EventsOf(ConvertToCast([lines |-> pcast, mtime |-> pfile.mtime + 1]))
       = EventsOf(pcast)

\* C11: normalising the normalised recording again yields the same event
\* sequence, and the first normalisation holds every well-formed event of the
\* original file in its original order.
C11_RoundTrip ==
    (pcast # NotParsed)
    => /\ EventsOf(ConvertToCast([lines |-> pcast, mtime |-> pfile.mtime + 1]))
          = EventsOf(pcast)
       /\ EventsOf(pcast) = ValidEvents(pfile.lines)

\* an event without its time
Untimed(es) == [j \in 1..Len(es) |-> Tail(es[j])]

\* the events of es whose time t satisfies s <= t <= e
Between(es, s, e) == SelectSeq(es, LAMBDA ev : s <= ev[1] /\ ev[1] <= e)

\* C12: the recording /extract returns holds exactly the events of the file
\* it read whose time t satisfies start <= t <= end, in their order.
C12_ExactlyInRange ==
    [][ (op'.name = "extract" /\ op'.error = "")
        => LET body == EventsOf(cast[op'.n].lines)
               got == EventsOf(op'.out)
           IN /\ Len(op'.out) >= 1
              /\ Untimed(got) = Untimed(Between(body, op'.s, op'.e)) ]_vars

C12_Witness ==
    /\ op.name = "extract"
    /\ op.error = ""
    /\ op.s = 1
    /\ op.e = 2
    /\ Len(op.out) = 3
    /\ op.out[2].e[1] = 1
    /\ op.out[3].e[1] = 2

\* C13: the recording /extract returns is time-shifted: the time of every
\* retained event is its original time minus the original time of the first
\* retained event (so the first retained event has time 0).
C13_ExtractShifted ==
    [][ (op'.name = "extract" /\ op'.error = "")
        => LET want == Between(EventsOf(cast[op'.n].lines), op'.s, op'.e)
               got == EventsOf(op'.out)
           IN /\ Len(got) = Len(want)
              /\ \A j \in 1..Len(got) : got[j][1] = want[j][1] - want[1][1] ]_vars

\* C15: when the file /extract reads has a header and none of its events falls
\* in the range (end < start included), the answer is the header alone and no
\* error is raised.
C15_EmptyRange ==
    [][ ( /\ op'.name = "extract"
          /\ cast[op'.n].ex
          /\ cast[op'.n].lines # <<>>
          /\ Between(EventsOf(cast[op'.n].lines), op'.s, op'.e) = <<>> )
        => /\ op'.error = ""
           /\ op'.out = <<Head(cast[op'.n].lines)>>
           /\ op'.out[1].k = "obj"
           /\ cast'[op'.n].lines = op'.out ]_vars

C15_Witness ==
    /\ op.name = "extract"
    /\ op.s = 3
    /\ op.e = 1
    /\ op.error = ""
    /\ Len(op.out) = 1
    /\ op.out[1].k = "obj"

\* C14: in the range-restricted worker the time of every retained event is
\* its original time minus the original time of the first retained event,
\* and it is not negative, whatever the order of the event times in the file.
C14_OffsetInvariant ==
    [][ \A w \in Wks :
          (wk[w].pc = "read" /\ wk'[w].pc \in {"loop", "wrenc"} /\ wk[w].rg # Full)
          => LET kept == Between(EventsOf(cast[wk[w].n].lines),
                                 wk[w].rg[1], wk[w].rg[2])
                 outs == SelectSeq(kept, LAMBDA ev : ev[2] = "o")
                 got == wk'[w].evs
             IN /\ Len(got) = Len(outs)
                /\ \A j \in 1..Len(got) :
                     /\ got[j][1] = outs[j][1] - kept[1][1]
                     /\ got[j][1] >= 0 ]_vars

\* C20: when the frame loop of a worker is over and the recording has an
\* output event, the last selected frame carries the time of the last output
\* event, also when that event left the screen as the last selected frame
\* showed it.
C20_LastEventSelected ==
    \A w \in Wks :
        (wk[w].pc = "wrenc" /\ wk[w].evs # <<>> /\ wk[w].hashed
         /\ wk[w].scr = wk[w].last)
        => /\ wk[w].ts # <<>>
           /\ wk[w].ts[Len(wk[w].ts)] = wk[w].evs[Len(wk[w].evs)][1]

\* two characters that differ in case at most
SameLetter(a, b) == a = b \/ {a, b} = {"L", "l"} \/ {a, b} = {"S", "s"}

\* the text t contains the text q, case ignored
ContainsIgnoringCase(t, q) ==
    \E off \in 0..(Len(t) - Len(q)) :
        \A i \in 1..Len(q) : SameLetter(t[off + i], q[i])

\* the events of the recording a search reads
Searched == EventsOf(ConvertToCast(op.src))

\* C16: for a non-empty query, every result of /search is an output event of
\* the recording whose payload contains the query, case ignored, and every
\* such output event has a result; no event of another kind has one.
C16_SearchSoundComplete ==
    (op.name = "search" /\ op.q # <<>>)
    => /\ \A x \in 1..Len(op.out) :
            LET r == op.out[x]
            IN /\ r.line_number \in 1..Len(Searched)
               /\ Searched[r.line_number][2] = "o"
               /\ IsString(Searched[r.line_number][3])
               /\ ContainsIgnoringCase(Searched[r.line_number][3], op.q)
               /\ r.timestamp = Searched[r.line_number][1]
       /\ \A j \in 1..Len(Searched) :
            ( /\ Searched[j][2] = "o"
              /\ IsString(Searched[j][3])
              /\ ContainsIgnoringCase(Searched[j][3], op.q) )
            => \E x \in 1..Len(op.out) : op.out[x].line_number = j
       /\ op.total = Len(op.out)

C16_Witness ==
    /\ op.name = "search"
    /\ op.q = <<"L", "S">>
    /\ op.src = TSorted
    /\ Len(op.out) = 2
    /\ op.out[1].timestamp = 0
    /\ op.out[2].timestamp = 2

\* C17: the content of a result is the payload of its event when the payload
\* has at most 100 characters, and its first 100 characters followed by "..."
\* otherwise: at most 103 characters.
C17_ExcerptBounded ==
    (op.name = "search")
    => \A x \in 1..Len(op.out) :
         LET r == op.out[x]
             p == Searched[r.line_number][3]
         IN /\ Len(p) <= 100 => r.content = p
            /\ Len(p) > 100 => r.content = SubSeq(p, 1, 100) \o <<".", ".", ".">>
            /\ Len(r.content) <= 103

C17_Witness ==
    /\ op.name = "search"
    /\ op.src = TLong
    /\ Len(op.out) = 2
    /\ Len(op.out[1].content) = 100
    /\ Len(op.out[2].content) = 103

\* the results of a search are in the order of their events in the recording
C18_EventOrder ==
    (op.name = "search")
    => \A x \in 1..Len(op.out), y \in 1..Len(op.out) :
         x < y => op.out[x].line_number < op.out[y].line_number

\* C18: the results of a search are in the order of their events, which is
\* ascending time: a result never has a later time than a result after it.
C18_AscendingTime ==
    (op.name = "search")
    => \A x \in 1..Len(op.out), y \in 1..Len(op.out) :
         x < y => /\ op.out[x].line_number < op.out[y].line_number
                  /\ op.out[x].timestamp <= op.out[y].timestamp

\* C19: a search with an empty query answers an empty result list, total 0
\* and no error, for every file.
C19_EmptyQuery ==
    (op.name = "search" /\ op.q = <<>>)
    => (op.out = <<>> /\ op.total = 0 /\ op.error = "")

C19_Witness ==
    /\ op.name = "search"
    /\ op.q = <<>>
    /\ op.src = EmptyFile
    /\ op.out = <<>>
    /\ op.error = ""

(***************************************************************************)
(* Frame selection.                                                        *)
(***************************************************************************)
\* a is b with some elements left out: same order, each element used once
RECURSIVE IsSubseq(_, _)
IsSubseq(a, b) ==
    IF a = <<>> THEN TRUE
    ELSE IF b = <<>> THEN FALSE
    ELSE IF Head(a) = Head(b) THEN IsSubseq(Tail(a), Tail(b))
    ELSE IsSubseq(a, Tail(b))

\* the times of the output events a worker for (lines, rg) has to replay, as
\* the frames carry them: those of the file, or those of the range counted
\* from its first event
OutputTimes(lines, rg) ==
    LET kept == IF rg = Full THEN EventsOf(lines)
                ELSE Between(EventsOf(lines), rg[1], rg[2])
        outs == SelectSeq(kept, LAMBDA ev : ev[2] = "o")
    IN [j \in 1..Len(outs) |->
          IF rg = Full THEN outs[j][1] ELSE outs[j][1] - kept[1][1]]

\* C21: a job never has more frames than its recording (its range) has
\* output events, and the times of its frames are the times of output events
\* in their order, none used twice.
C21_FrameBound ==
    \A w \in Wks :
        wk[w].pc \in {"loop", "wrenc", "enc", "encoding", "wrdone", "wrnone"}
        => /\ wk[w].nimg = Len(wk[w].ts)
           /\ wk[w].nimg <= Len(OutputTimes(cast[wk[w].n].lines, wk[w].rg))
           /\ IsSubseq(wk[w].ts, OutputTimes(cast[wk[w].n].lines, wk[w].rg))

\* three output events, two frames: the second event left the screen as it was
C21_Witness ==
    \E w \in Wks :
        /\ wk[w].pc = "wrenc"
        /\ Len(OutputTimes(cast[wk[w].n].lines, wk[w].rg)) = 3
        /\ wk[w].ts = <<0, 2>>

\* C23: an iteration of the frame loop selects a frame only if the display
\* differs from the display of the most recently selected frame (or no frame
\* was selected yet), and then it selects one unless the rendering fails; an
\* event that leaves the display as that frame showed it selects nothing;
\* and an iteration that selects no frame, a failed rendering included,
\* leaves the remembered display as it was.
C23_ComparedWithLastSelected ==
    [][ \A w \in Wks :
          (wk[w].pc = "loop" /\ wk'[w] # wk[w])
          => LET evt == wk[w].evs[wk[w].i + 1]
                 selected == wk'[w].nimg = wk[w].nimg + 1
             IN /\ selected \/ (wk'[w].nimg = wk[w].nimg /\ wk'[w].ts = wk[w].ts)
                /\ selected
                   => /\ ~wk[w].hashed \/ wk'[w].scr # wk[w].last
                      /\ wk'[w].ts = Append(wk[w].ts, evt[1])
                      /\ wk'[w].hashed /\ wk'[w].last = wk'[w].scr
                /\ (wk[w].hashed /\ wk'[w].scr = wk[w].last) => ~selected
                /\ (~FeedRaises(evt[3])
                    /\ (~wk[w].hashed \/ wk'[w].scr # wk[w].last))
                   => selected \/ wk'[w].rfail
                /\ ~selected
                   => /\ wk'[w].hashed = wk[w].hashed
                      /\ wk'[w].last = wk[w].last ]_vars

\* a frame for "A", an event that changes nothing, then "B" whose rendering
\* fails: one frame, and the remembered display is still the one of "A"
C23_Witness ==
    \E w \in Wks :
        /\ wk[w].pc = "wrenc"
        /\ wk[w].i = 3
        /\ wk[w].ts = <<0>>
        /\ wk[w].scr = <<"A", "B">>
        /\ wk[w].last = <<"A">>
        /\ wk[w].rfail

\* C24: the signature covers the colours of the cells as well as their
\* glyphs: an output event that changes the colour of a cell and no glyph
\* selects a new frame (unless its rendering fails).
C24_ColourChangeSelected ==
    [][ \A w \in Wks :
          (/\ wk[w].pc = "loop" /\ wk'[w] # wk[w]
           /\ wk[w].hashed /\ wk[w].last = wk[w].scr
           /\ wk'[w].scr = wk[w].scr /\ wk'[w].sgr # wk[w].sgr)
          => wk'[w].nimg = wk[w].nimg + 1 \/ wk'[w].rfail ]_vars

\* C25: a job in which the rendering of a frame failed, the fallback
\* rendering included, does not end as done.
C25_RenderFailureFails ==
    [][ \A w \in Wks :
          (Live(w) /\ wk[w].rfail) => wk'[w].pc # "done" ]_vars

(***************************************************************************)
(* Job status.                                                             *)
(***************************************************************************)
\* the record reports a failure
Failed(rec) == rec.err # ""

\* C26: the status of a key only moves forward: after a poll for a key
\* answered done, the next poll for that key answers done too, and a record
\* that reports a failure is not replaced by a record that reports progress
\* or completion.
C26_StatusForwardOnly ==
    [][ /\ (resp'.k = resp.k /\ resp.rec.done) => resp'.rec.done
        /\ \A k \in Keys :
             (prog[k].ex /\ Failed(prog[k].rec) /\ prog'[k].ex)
             => Failed(prog'[k].rec) ]_vars

\* a request for key k is in while k has a progress record, no output file
\* and no live worker
StaleRequest(k) ==
    /\ \E r \in Reqs : req[r].pc = "check" /\ KeyOf(req[r]) = k
    /\ prog[k].ex /\ ~Exists(k)
    /\ \A w \in Wks : Live(w) => KeyOf(wk[w]) # k

\* C27: a key with a progress record, no output file and no live worker is
\* not stuck: once a request for it is in, a worker for it eventually runs.
C27_StaleRetried ==
    \A k \in Keys :
        StaleRequest(k) ~> (\E w \in Wks : Live(w) /\ KeyOf(wk[w]) = k)

\* the files of key k: its progress record, its output file and its
\* normalized recording
FilesOf(k) == <<prog[k], mp4[k], cast[k.n]>>

\* C28: a step of a live worker or of a handler past convert_to_cast leaves
\* the progress record, the output file and the normalized recording of
\* every key with another recording than its own as they were.
C28_NoCrossKeyWrites ==
    [][ /\ \A w \in Wks :
             (Live(w) /\ wk'[w] # wk[w])
             => \A k \in Keys : (k.n # wk[w].n) => FilesOf(k)' = FilesOf(k)
        /\ \A r \in Reqs :
             (req[r].pc = "check" /\ req'[r] # req[r])
             => \A k \in Keys : (k.n # req[r].n) => FilesOf(k)' = FilesOf(k)
      ]_vars

(***************************************************************************)
(* Replay.                                                                 *)
(***************************************************************************)
\* C29: a worker feeds its own emulator the output events of its recording
\* (its range), each once, no event of another kind, in non-decreasing order
\* of their times.
C29_FedInTimeOrder ==
    \A w \in Wks :
        (wk[w].pc = "loop")
        => /\ Len(wk[w].evs) = Len(OutputTimes(cast[wk[w].n].lines, wk[w].rg))
           /\ \A j \in 1..Len(wk[w].evs) :
                /\ wk[w].evs[j][2] = "o"
                /\ wk[w].evs[j][1] = OutputTimes(cast[wk[w].n].lines, wk[w].rg)[j]
           /\ \A i, j \in 1..Len(wk[w].evs) :
                i < j => wk[w].evs[i][1] <= wk[w].evs[j][1]

\* C30: an output event whose payload makes the emulator raise does not end
\* the replay: the step neither writes a record nor ends the worker, the
\* frames selected so far stay as they are, and the loop goes on with the
\* next output event.
C30_FeedErrorSkipsEvent ==
    [][ \A w \in Wks :
          (/\ wk[w].pc = "loop" /\ wk'[w] # wk[w]
           /\ FeedRaises(wk[w].evs[wk[w].i + 1][3]))
          => /\ wk'[w].pc = IF wk[w].i + 1 < Len(wk[w].evs) THEN "loop" ELSE "wrenc"
             /\ wk'[w].i = wk[w].i + 1
             /\ wk'[w].evs = wk[w].evs
             /\ wk'[w].ts = wk[w].ts /\ wk'[w].nimg = wk[w].nimg
             /\ wk'[w].hashed = wk[w].hashed /\ wk'[w].last = wk[w].last
             /\ prog' = prog ]_vars

\* the payload of the first output event is no string, the second output
\* event gave a frame
C30_Witness ==
    \E w \in Wks :
        /\ wk[w].pc = "wrenc"
        /\ Len(wk[w].evs) = 2
        /\ FeedRaises(wk[w].evs[1][3])
        /\ wk[w].ts = <<wk[w].evs[2][1]>>

(***************************************************************************)
(* The normalised recording.                                               *)
(***************************************************************************)
\* the times of es never go down
TimeSorted(es) == \A i, j \in 1..Len(es) : i < j => es[i][1] <= es[j][1]

\* C31: the events of the normalised recording are events of the source in
\* the order of the source, and their times never go down, whatever the
\* order of the event lines of the source.
C31_SortedByTime ==
    (pcast # NotParsed)
    => /\ IsSubseq(EventsOf(pcast), ValidEvents(pfile.lines))
       /\ TimeSorted(EventsOf(pcast))

\* C37: every line of the source that is a JSON array with three elements or
\* more is a line of the normalised recording, the first line of a file
\* without header included: the recording has as many events as the source
\* has such lines, and each of them is among its events.
C37_NoEventLineLost ==
    (pcast # NotParsed)
    => /\ Len(EventsOf(pcast)) = Len(SelectSeq(pfile.lines, WellFormedEvent))
       /\ \A j \in 1..Len(pfile.lines) :
            WellFormedEvent(pfile.lines[j])
            => \E i \in 1..Len(EventsOf(pcast)) :
                 EventsOf(pcast)[i] = pfile.lines[j].e

(***************************************************************************)
(* The frame rate handed to the encoder.                                   *)
(***************************************************************************)
\* the fraction a is at least the fraction b (positive denominators)
AtLeast(a, b) == a.num * b.den >= b.num * a.den

\* the difference between the last and the first of the frame times: the
\* sum of the differences of consecutive frame times
Span(ts) == ts[Len(ts)] - ts[1]

\* C32: the frame rate is defined and at least 5 for every sequence of frame
\* times, a single frame, equal times and decreasing times included; it is
\* 1/mean when the mean of the differences of consecutive frame times is
\* positive and 1/mean is 5 or more, and 5 otherwise.
C32_FpsFloor ==
    calc.done
    => /\ calc.fps.den > 0
       /\ AtLeast(calc.fps, [num |-> 5, den |-> 1])
       /\ IF Len(calc.ts) > 1 /\ Span(calc.ts) > 0
             /\ calc.d * (Len(calc.ts) - 1) >= 5 * Span(calc.ts)
          THEN calc.fps.num * Span(calc.ts)
               = calc.fps.den * calc.d * (Len(calc.ts) - 1)
          ELSE calc.fps = [num |-> 5, den |-> 1]

\* three frames at the same time: the mean is 0 and the rate is 5
C32_Witness ==
    /\ calc.done
    /\ calc.ts = <<1, 1, 1>>
    /\ calc.fps = [num |-> 5, den |-> 1]

\* frames a tenth of a second apart: the rate is 10
C32_Fast ==
    /\ calc.done
    /\ calc.ts = <<0, 1, 2>> /\ calc.d = 10
    /\ calc.fps.num = 10 * calc.fps.den

(***************************************************************************)
(* The progress records of a run.                                          *)
(***************************************************************************)
\* C33: in the frame loop a record is written only by an iteration that
\* selected a frame, and only when the number of selected frames is a
\* multiple of 5 or the event is the last output event; a run that selected
\* F frames wrote at most F/5 + 1 records in the loop.
C33_BoundedCadence ==
    /\ \A w \in Wks : Live(w) => wk[w].nw <= (wk[w].nimg \div 5) + 1
    /\ \A w \in Wks :
         (Live(w) /\ wk[w].nw > 0)
         => /\ wk[w].wrote.text \in {"Processing frame", "Encoding MP4..."}
            /\ wk[w].wrote.text = "Processing frame"
               => \/ wk[w].wrote.frame % 5 = 0
                  \/ wk[w].wrote.num = Len(wk[w].evs) - 1

\* six frames selected, two records written: after the fifth frame and after
\* the last event
C33_Witness ==
    \E w \in Wks :
        /\ wk[w].pc = "wrenc"
        /\ wk[w].nimg = 6
        /\ wk[w].nw = 2

(***************************************************************************)
(* Polls.                                                                  *)
(***************************************************************************)
\* C34: /progress answers done for an output path only when no worker for
\* that path is still running; in particular not while the encoder is
\* writing the file.
C34_DoneAfterWorker ==
    [][ (resp' # resp /\ resp'.rec.done)
        => \A w \in Wks : Live(w) => KeyOf(wk[w]) # resp'.k ]_vars

\* C35: when /progress answers done for an output path, the output file
\* exists and /download_mp4 for that path sends it.
C35_DoneHasFile ==
    [][ \A k \in Keys :
          (resp' # resp /\ resp'.k = k /\ resp'.rec.done)
          => DownloadMp4(k)' = "file" ]_vars

\* C36: /extract leaves the recording it reads as it was: the lines of a
\* normalised recording in the temporary directory are the same after the
\* request as before, so that a later /extract or replay reads the events of
\* the original.
C36_ExtractLeavesFile ==
    [][ (op'.name = "extract")
        => \A n \in Names : cast[n].ex => cast'[n].lines = cast[n].lines ]_vars

\* the progress value of record a is at most that of record b
NotAbove(a, b) == a.num * b.den <= b.num * a.den

\* C38: in a run of a worker the progress values of the records it writes
\* never go down, no record follows a record with done=true, and a run that
\* ends without failure ends with a record of progress 1.0 and done=true,
\* the only one of the run with done=true.
C38_ProgressMonotone ==
    [][ \A w \in Wks :
          LET k == KeyOf(wk[w])
              written == prog'[k].ex /\ prog'[k] # prog[k]
          IN (Live(w) /\ wk[w].pc # "cleanup" /\ wk'[w] # wk[w])
             => /\ ~wk[w].wrote.done
                /\ (written /\ wk'[w].pc # "failed")
                   => NotAbove(wk[w].wrote, prog'[k].rec)
                /\ (written /\ prog'[k].rec.done) => wk'[w].pc = "done"
                /\ (wk'[w].pc = "done")
                   => /\ written
                      /\ prog'[k].rec.done
                      /\ prog'[k].rec.num = prog'[k].rec.den ]_vars

\* the run over six output events wrote 4/6, then 5/6, then "Encoding MP4..."
\* with 1.0
C38_Witness ==
    \E w \in Wks :
        /\ wk[w].pc = "enc"
        /\ wk[w].nw = 2
        /\ wk[w].wrote = RecEncoding
        /\ prog[KeyOf(wk[w])].rec = RecEncoding

(***************************************************************************)
(* The two workers.                                                        *)
(***************************************************************************)
\* the first event of the recording is at time 0 and the range rg holds the
\* time of every event
Covers(lines, rg) ==
    LET es == EventsOf(lines)
    IN /\ es # <<>>
       /\ es[1][1] = 0
       /\ \A j \in 1..Len(es) : rg[1] <= es[j][1] /\ es[j][1] <= rg[2]

\* C39: for a recording whose first event is at time 0 and a range that
\* holds every event time, the worker of the range replays the output events
\* of the whole recording with their own times, as the worker of the whole
\* recording does; the frames it selected carry times of those events, and
\* the video it writes has the frame rate of those times.
C39_RangeRefinesFull ==
    \A w \in Wks :
        (/\ wk[w].pc \in {"loop", "wrenc", "enc", "encoding", "wrdone", "wrnone"}
         /\ wk[w].rg # Full
         /\ Covers(cast[wk[w].n].lines, wk[w].rg))
        => /\ wk[w].evs = SelectSeq(EventsOf(cast[wk[w].n].lines),
                                    LAMBDA ev : ev[2] = "o")
           /\ wk[w].evs = WorkerEvents(cast[wk[w].n].lines, Full)
           /\ IsSubseq(wk[w].ts, OutputTimes(cast[wk[w].n].lines, Full))
           /\ (wk[w].pc \in {"encoding", "wrdone"})
              => mp4[KeyOf(wk[w])].fps = Fps(wk[w].ts, 1)

\* the worker of the range 0..5 selected the six frames of the recording of
\* six output events at times 0 to 5
C39_Witness ==
    \E w \in Wks :
        /\ wk[w].pc = "wrenc"
        /\ wk[w].rg = <<0, 5>>
        /\ wk[w].ts = <<0, 1, 2, 3, 4, 5>>
        /\ wk[w].nw = 2

(***************************************************************************)
(* The launcher.                                                           *)
(***************************************************************************)
\* the launcher compared a local hash with a remote hash that differs
MismatchSeen == \E j \in 1..Len(lnch.seen) : lnch.seen[j][1] # lnch.seen[j][2]

\* C40: auto_update changes a local file or restarts the process only after
\* it found a local hash that differs from the remote one and the user
\* answered yes; when the user declines or every local hash equals its
\* remote hash, it ends with every local file as it was and without restart.
C40_UpdateOnlyOnConsent ==
    /\ (lnch.pc # "off" /\ (lnch.local # lnch.local0 \/ lnch.pc = "restarted"))
       => (MismatchSeen /\ lnch.answer = "yes")
    /\ (lnch.pc \in {"done", "restarted"} /\ (~MismatchSeen \/ lnch.answer = "no"))
       => (lnch.local = lnch.local0 /\ lnch.pc = "done")

\* the main script differs from its remote copy, the user declined, and the
\* launcher went on with both files as they were
C40_Witness ==
    /\ lnch.pc = "done"
    /\ lnch.seen = <<<<"a", "a">>, <<"a", "b">>>>
    /\ lnch.answer = "no"
    /\ lnch.local = lnch.local0

\* the user accepted: the main script was replaced and the process restarted
C40_Updated ==
    /\ lnch.pc = "restarted"
    /\ lnch.answer = "yes"
    /\ lnch.local # lnch.local0

====
